---- MODULE Spec2Model ----
(***************************************************************************)
(* A model of the comment pipeline of youtube-comment-nlp:                 *)
(*   preprocess.py     language gate and detection, bucket plan, bucket    *)
(*                     assignment, text normalisation, per-bucket split    *)
(*   analyze_basic.py  per-bucket frequency analysis                       *)
(*                                                                         *)
(* A text is a sequence of characters, a character a one-element string.   *)
(* Characters outside ASCII carry a name ending in "~" (see the character  *)
(* classes below).  A float is a rational [num, den] with den > 0, and two *)
(* floats are compared by cross-multiplication.                            *)
(*                                                                         *)
(* Specifications:                                                         *)
(*   Spec         process_file and the split of preprocess_run, step by    *)
(*                step, on one raw/all.csv of at least one row             *)
(*   SpecPlan     decide_analyze_langs and bucket on one distribution      *)
(*   SpecDetect   detect_language on one text and one detector answer      *)
(*   SpecClean    clean_text on one text, then on its own output           *)
(*   SpecAnalyze  analyze_one on one DataFrame                             *)
(*   SpecRun      preprocess_run, then analyze_run on the files it wrote   *)
(*                                                                         *)
(* What is outside the repository is modelled by its documented behaviour: *)
(* the detector answers anything (candidates sorted by confidence),        *)
(* html.unescape knows four character references, pd.to_datetime parses    *)
(* cell by cell, to_csv writes NaN and the empty string as an empty field, *)
(* read_csv reads its default missing-value fields as NaN and a column of  *)
(* integers as numbers, and stemming is off (nltk absent).                 *)
(***************************************************************************)
EXTENDS Integers, Sequences, FiniteSets, TLC

VARIABLES
    \* ---- decide_analyze_langs / bucket (preprocess.py) ----
    lang_counts,      \* pd.Series: language label -> count
    threshold,        \* the threshold of the first plan
    analyze_langs,    \* the plan computed with threshold
    threshold2,       \* a second threshold, for the same distribution
    analyze_langs2,   \* the plan computed with threshold2
    lang,             \* the detected language handed to bucket()
    bucket_of,        \* what bucket() returned for it
    ppc,              \* position: "init", "planned", "replanned", "assigned"
    \* ---- detect_language (preprocess.py) ----
    text,             \* the text handed to detect_language
    langs,            \* what the detector returned for it (None: not asked)
    detected,         \* the label detect_language returned
    detector_calls,   \* calls of compute_language_confidence_values so far
    \* ---- clean_text (preprocess.py) ----
    raw_text,         \* the text handed to clean_text
    cbucket,          \* the bucket handed to clean_text
    clean1,           \* clean_text(raw_text, cbucket)
    clean2,           \* clean_text(clean1, cbucket)
    cpc,              \* position: "raw", "once", "twice"
    \* ---- process_file / preprocess_run (preprocess.py) ----
    csv,              \* raw/all.csv: [has_id, rows]
    df,               \* the DataFrame of process_file, a sequence of rows
    col,              \* the column an apply() is building, row by row
    outputs,          \* bucket name -> the rows written for it
    processed,        \* processed/: bucket name -> the file <bucket>.csv
    pc,               \* position in process_file / preprocess_run
    \* ---- analyze_one (analyze_basic.py) ----
    adf,              \* the DataFrame handed to analyze_one: [columns, rows]
    report,           \* what analyze_one computed and wrote
    apc,              \* position: "loaded", "analyzed", "aborted"
    \* ---- analyze_run (analyze_basic.py) ----
    results,          \* bucket name -> what analyze_one computed for its file
    bi,               \* the bucket of the loop: an index of RunBuckets
    rpc               \* position: "waiting", "loop", "returned", "raised"

planVars == <<lang_counts, threshold, analyze_langs, threshold2,
              analyze_langs2, lang, bucket_of, ppc>>

detectVars == <<text, langs, detected, detector_calls>>

cleanVars == <<raw_text, cbucket, clean1, clean2, cpc>>

pipeVars == <<csv, df, col, outputs, processed, pc>>

analyzeVars == <<adf, report, apc>>

runVars == <<results, bi, rpc>>

vars == <<planVars, detectVars, cleanVars, pipeVars, analyzeVars, runVars>>

otherThanPlan == <<detectVars, cleanVars, pipeVars, analyzeVars, runVars>>
otherThanDetect == <<planVars, cleanVars, pipeVars, analyzeVars, runVars>>
otherThanClean == <<planVars, detectVars, pipeVars, analyzeVars, runVars>>
otherThanAnalyze == <<planVars, detectVars, cleanVars, pipeVars, runVars>>
otherThanRun == <<planVars, detectVars, cleanVars, pipeVars, analyzeVars>>
\* the pipeline plans too: it writes lang_counts, threshold and analyze_langs
otherThanPipe == <<threshold2, analyze_langs2, lang, bucket_of, ppc,
                   detectVars, cleanVars, analyzeVars, runVars>>

(***************************************************************************)
(* Bounds                                                                  *)
(***************************************************************************)
MaxCount == 2        \* largest count of one language in a distribution
MaxDen == 3          \* thresholds are n/d with d in 1..MaxDen, n in 0..d+1
MaxPieces == 3       \* a text handed to detect_language: at most this many pieces
MaxCands == 1        \* candidates in one detector answer
MaxTextLen == 4      \* longest text over CleanAlphabet handed to clean_text
MaxRows == 2         \* rows of raw/all.csv
MaxDfRows == 2       \* rows of the DataFrame handed to analyze_one

None == "none"       \* Python's None / a value not yet computed
NoneText == <<"None~">>   \* None where a text is expected
NaNText == <<"NaN~">>     \* NaN where a text is expected (an empty CSV cell)

\* a number where a text is expected (a CSV column read back as numbers):
\* the tag, then the decimal digits of the integer it is equal to
Int64Tag == "int64~"
Float64Tag == "float64~"

\* str(x), Series.astype(str)
Str(x) == IF x = NaNText THEN <<"n", "a", "n">>
          ELSE IF x = NoneText THEN <<"N", "o", "n", "e">>
          ELSE IF x # <<>> /\ Head(x) = Int64Tag THEN Tail(x)
          ELSE IF x # <<>> /\ Head(x) = Float64Tag
               THEN Tail(x) \o <<".", "0">>
          ELSE x

(***************************************************************************)
(* Floats as rationals                                                     *)
(***************************************************************************)
Rat(n, d) == [num |-> n, den |-> d]
Geq(a, b) == a.num * b.den >= b.num * a.den
Lt(a, b) == a.num * b.den < b.num * a.den
Leq(a, b) == a.num * b.den <= b.num * a.den

Thresholds == {Rat(n, d) : n \in 0..(MaxDen + 1), d \in 1..MaxDen}

ANALYZE_THRESHOLD == Rat(1, 5)

(***************************************************************************)
(* The labels detect_language returns                                      *)
(***************************************************************************)
LangLabels == {"tr", "en", "other", "unknown"}

\* df["lang"].value_counts(): the labels that occur, each with a count >= 1
Distributions ==
    UNION {[D -> 1..MaxCount] : D \in SUBSET LangLabels}

RECURSIVE SumOver(_, _)
SumOver(f, S) ==
    IF S = {} THEN 0
    ELSE LET x == CHOOSE y \in S : TRUE IN f[x] + SumOver(f, S \ {x})

\* lang_counts.sum()
SeriesSum(lc) == SumOver(lc, DOMAIN lc)

\* (lang_counts / total).sort_values(ascending=False): the labels, largest
\* ratio first
RECURSIVE SortValuesDesc(_, _)
SortValuesDesc(ratios, S) ==
    IF S = {} THEN <<>>
    ELSE LET top == CHOOSE x \in S : \A y \in S : Geq(ratios[x], ratios[y])
         IN <<top>> \o SortValuesDesc(ratios, S \ {top})

\* the loop of decide_analyze_langs over ratios.items()
RECURSIVE PlanLoop(_, _, _, _)
PlanLoop(order, ratios, thr, analyze) ==
    IF order = <<>> THEN analyze
    ELSE LET l == Head(order)
             r == ratios[l]
         IN IF l \in {"unknown", "other"}
            THEN PlanLoop(Tail(order), ratios, thr, analyze)
            ELSE IF Geq(r, thr)
                 THEN PlanLoop(Tail(order), ratios, thr, analyze \cup {l})
                 ELSE PlanLoop(Tail(order), ratios, thr, analyze)

\* a faulty variant: a share equal to the threshold does not qualify
decide_analyze_langs_strict(lc, thr) ==
    LET total == SeriesSum(lc) IN
    IF total = 0 THEN {}
    ELSE {l \in DOMAIN lc \ {"unknown", "other"} :
             ~Leq(Rat(lc[l], total), thr)}

\* a faulty variant: share and threshold are compared the wrong way round
decide_analyze_langs_flipped(lc, thr) ==
    LET total == SeriesSum(lc) IN
    IF total = 0 THEN {}
    ELSE {l \in DOMAIN lc \ {"unknown", "other"} :
             Leq(Rat(lc[l], total), thr)}

decide_analyze_langs(lc, thr) ==
    LET total == SeriesSum(lc) IN
    IF total = 0 THEN {}
    ELSE LET ratios == [l \in DOMAIN lc |-> Rat(lc[l], total)]
         IN PlanLoop(SortValuesDesc(ratios, DOMAIN lc), ratios, thr, {})

\* a faulty variant: the unknown label is looked up in the plan like any other
bucket_lookup_only(l, plan) ==
    IF l \in plan THEN l ELSE "others"

\* process_file.bucket
bucket(l, plan) ==
    IF l = "unknown" THEN "unknown"
    ELSE IF l \in plan THEN l
    ELSE "others"

(***************************************************************************)
(* Specification SpecPlan: one distribution, planned with one threshold,   *)
(* planned again with a second one, and labels assigned under the plan     *)
(***************************************************************************)
IdleDetect ==
    /\ text = None
    /\ langs = None
    /\ detected = None
    /\ detector_calls = 0

IdleAnalyze ==
    /\ adf = None
    /\ report = None
    /\ apc = "idle"

IdlePipe ==
    /\ csv = None
    /\ df = None
    /\ col = None
    /\ outputs = None
    /\ processed = None
    /\ pc = "idle"

IdleRun ==
    /\ results = None
    /\ bi = 0
    /\ rpc = "idle"

IdleClean ==
    /\ raw_text = None
    /\ cbucket = None
    /\ clean1 = None
    /\ clean2 = None
    /\ cpc = "idle"

IdlePlan ==
    /\ lang_counts = None
    /\ threshold = None
    /\ analyze_langs = None
    /\ threshold2 = None
    /\ analyze_langs2 = None
    /\ lang = None
    /\ bucket_of = None
    /\ ppc = "idle"

InitPlan ==
    /\ IdleDetect
    /\ IdleClean
    /\ IdlePipe
    /\ IdleAnalyze
    /\ IdleRun
    /\ lang_counts \in Distributions
    /\ threshold \in Thresholds
    /\ analyze_langs = None
    /\ threshold2 = None
    /\ analyze_langs2 = None
    /\ lang = None
    /\ bucket_of = None
    /\ ppc = "init"

Plan ==
    /\ ppc = "init"
    /\ analyze_langs' = decide_analyze_langs(lang_counts, threshold)
    /\ ppc' = "planned"
    /\ UNCHANGED <<lang_counts, threshold, threshold2, analyze_langs2, lang,
                   bucket_of>>
    /\ UNCHANGED otherThanPlan

PlanAgain ==
    /\ ppc = "planned"
    /\ \E t \in Thresholds :
          /\ threshold2' = t
          /\ analyze_langs2' = decide_analyze_langs(lang_counts, t)
    /\ ppc' = "replanned"
    /\ UNCHANGED <<lang_counts, threshold, analyze_langs, lang, bucket_of>>
    /\ UNCHANGED otherThanPlan

Assign ==
    /\ ppc \in {"planned", "assigned"}
    /\ \E l \in LangLabels :
          /\ lang' = l
          /\ bucket_of' = bucket(l, analyze_langs)
    /\ ppc' = "assigned"
    /\ UNCHANGED <<lang_counts, threshold, analyze_langs, threshold2,
                   analyze_langs2>>
    /\ UNCHANGED otherThanPlan

NextPlan == Plan \/ PlanAgain \/ Assign

SpecPlan == InitPlan /\ [][NextPlan]_vars

(***************************************************************************)
(* C1: the plan is exactly the set of labels whose share count/total       *)
(* (total over every label, unknown and other included) is at least the    *)
(* threshold and which are neither unknown nor other; it is empty when the *)
(* total is zero.                                                          *)
(***************************************************************************)
C1_PlanIsExactlyQualifying ==
    ppc # "init" =>
        LET total == SumOver(lang_counts, DOMAIN lang_counts) IN
        /\ total = 0 => analyze_langs = {}
        /\ total # 0 =>
             \A l \in LangLabels :
                l \in analyze_langs <=>
                    /\ l \in DOMAIN lang_counts
                    /\ l # "unknown"
                    /\ l # "other"
                    /\ lang_counts[l] * threshold.den >= threshold.num * total

\* a language sits exactly on the threshold and is planned, while unknown and
\* other reach the threshold too and are left out
C1_Witness ==
    /\ ppc = "planned"
    /\ "tr" \in analyze_langs
    /\ "en" \in DOMAIN lang_counts /\ "en" \notin analyze_langs
    /\ "other" \in DOMAIN lang_counts /\ "unknown" \in DOMAIN lang_counts
    /\ Geq(Rat(lang_counts["other"], SeriesSum(lang_counts)), threshold)
    /\ lang_counts["tr"] * threshold.den
         = threshold.num * SeriesSum(lang_counts)

\* the empty corpus: total zero, empty plan
C1_WitnessEmpty == ppc = "planned" /\ DOMAIN lang_counts = {}

(***************************************************************************)
(* C2: for one distribution and thresholds t1 <= t2, the plan for t2 is a  *)
(* subset of the plan for t1.                                              *)
(***************************************************************************)
C2_RaisingThresholdShrinksPlan ==
    (ppc = "replanned" /\ Leq(threshold, threshold2)) =>
        analyze_langs2 \subseteq analyze_langs

\* a strictly higher threshold that drops a language from a non-empty plan
C2_Witness ==
    /\ ppc = "replanned"
    /\ Lt(threshold, threshold2)
    /\ analyze_langs2 # {}
    /\ analyze_langs2 # analyze_langs

(***************************************************************************)
(* C3: the bucket is a function of (label, plan): unknown gives unknown    *)
(* whatever the plan, a planned label gives itself, anything else gives    *)
(* others; so the bucket is in plan \cup {others, unknown} and an unknown  *)
(* record is in no bucket but unknown.                                     *)
(***************************************************************************)
C3_BucketAssignment ==
    ppc = "assigned" =>
        /\ lang = "unknown" => bucket_of = "unknown"
        /\ (lang # "unknown" /\ lang \in analyze_langs) => bucket_of = lang
        /\ (lang # "unknown" /\ lang \notin analyze_langs) =>
              bucket_of = "others"
        /\ bucket_of \in analyze_langs \cup {"others", "unknown"}
        /\ bucket_of = "unknown" <=> lang = "unknown"

\* an unknown record assigned under a plan that was computed from a
\* distribution in which unknown reaches the threshold
C3_Witness ==
    /\ ppc = "assigned"
    /\ lang = "unknown"
    /\ "unknown" \in DOMAIN lang_counts
    /\ Geq(Rat(lang_counts["unknown"], SeriesSum(lang_counts)), threshold)
    /\ analyze_langs # {}

\* an other record goes to others
C3_WitnessOther == ppc = "assigned" /\ lang = "other" /\ bucket_of = "others"

(***************************************************************************)
(* Characters.  The classes are those of the regular expressions of        *)
(* preprocess.py, restricted to the characters modelled:                   *)
(*   c~ g~ i~ o~ s~ u~    the Turkish lower-case letters (i~ is dotless i) *)
(*   C~ G~ I~ O~ S~ U~    the Turkish capitals (I~ is dotted capital I)    *)
(*   e~                   a Latin letter outside both alphabets            *)
(*   d~                   a letter of another script (Cyrillic)            *)
(*   dot~                 COMBINING DOT ABOVE, which lower() makes of I~   *)
(*   emo~                 an emoji                                          *)
(***************************************************************************)
AsciiLower == {"a", "b", "c", "d", "e", "f", "g", "h", "i", "j", "k", "l", "m",
               "n", "o", "p", "q", "r", "s", "t", "u", "v", "w", "x", "y", "z"}
AsciiUpper == {"A", "B", "C", "D", "E", "F", "G", "H", "I", "J", "K", "L", "M",
               "N", "O", "P", "Q", "R", "S", "T", "U", "V", "W", "X", "Y", "Z"}
Digits == {"0", "1", "2", "3", "4", "5", "6", "7", "8", "9"}
TrLower == {"c~", "g~", "i~", "o~", "s~", "u~"}
TrUpper == {"C~", "G~", "I~", "O~", "S~", "U~"}
OtherLetters == {"e~", "d~"}

\* \w with re.UNICODE: letters of any script, digits, underscore
WordChars ==
    AsciiLower \cup AsciiUpper \cup Digits \cup TrLower \cup TrUpper
        \cup OtherLetters \cup {"_"}
\* \s
SpaceChars == {" ", "\n", "\r", "\t"}
\* what is neither: punctuation, the combining dot, the emoji
OtherChars == {"!", ".", ",", ":", "/", "#", "@", "&", ";", "<", ">", "'",
               "dot~", "emo~"}
\* \S
NonSpaceChars == WordChars \cup OtherChars
\* [A-Za-z...] of is_low_signal
AlphaChars == AsciiLower \cup AsciiUpper \cup TrLower \cup TrUpper
\* [a-zA-Z...0-9] of tokenize
TokenChars == AlphaChars \cup Digits

\* re.findall(r"[S]+", s): the maximal runs of characters of S, in order
RECURSIVE FindRuns(_, _, _, _, _)
FindRuns(s, S, i, cur, acc) ==
    IF i > Len(s)
    THEN IF cur = <<>> THEN acc ELSE Append(acc, cur)
    ELSE IF s[i] \in S
         THEN FindRuns(s, S, i + 1, Append(cur, s[i]), acc)
         ELSE FindRuns(s, S, i + 1, <<>>,
                       IF cur = <<>> THEN acc ELSE Append(acc, cur))

FindAllRuns(s, S) == FindRuns(s, S, 1, <<>>, <<>>)

\* re.findall(r"[S]", s): the characters of S in s, in order
FindAllChars(s, S) == SelectSeq(s, LAMBDA c : c \in S)

\* str.strip()
RECURSIVE LStrip(_)
LStrip(s) ==
    IF s # <<>> /\ Head(s) \in SpaceChars THEN LStrip(Tail(s)) ELSE s
RECURSIVE RStrip(_)
RStrip(s) ==
    IF s # <<>> /\ s[Len(s)] \in SpaceChars
    THEN RStrip(SubSeq(s, 1, Len(s) - 1)) ELSE s
Strip(s) == RStrip(LStrip(s))

(***************************************************************************)
(* The low-signal gate and detect_language                                 *)
(***************************************************************************)
MIN_ALPHA_CHARS == 8
MIN_WORDS == 2
MIN_CONFIDENCE == Rat(35, 100)

\* a faulty variant: the gate looks at the number of words only
is_low_signal_words_only(s) ==
    \/ s = <<>>
    \/ Len(FindAllRuns(Strip(s), WordChars)) < MIN_WORDS

is_low_signal(s) ==
    IF s = <<>> THEN TRUE
    ELSE LET t == Strip(Str(s))
             words == FindAllRuns(t, WordChars)
         IN IF Len(words) < MIN_WORDS THEN TRUE
            ELSE LET alpha == FindAllChars(t, AlphaChars)
                 IN IF Len(alpha) < MIN_ALPHA_CHARS THEN TRUE
                    ELSE FALSE

\* the languages the detector of process_file is built from
Languages == {"TURKISH", "ENGLISH", "GERMAN", "FRENCH", "SPANISH", "ITALIAN",
              "PORTUGUESE", "RUSSIAN", "ARABIC", "JAPANESE", "KOREAN",
              "CHINESE"}

LANG_MAP == [l \in {"TURKISH", "ENGLISH"} |->
                IF l = "TURKISH" THEN "tr" ELSE "en"]

\* dict.get(key, default)
DictGet(d, k, default) == IF k \in DOMAIN d THEN d[k] ELSE default

ConfidenceValues == {Rat(0, 1), Rat(34, 100), Rat(35, 100), Rat(1, 1)}
Candidates == [language : Languages, value : ConfidenceValues]

\* what compute_language_confidence_values can return: candidates of
\* distinct languages, the most confident first
DetectorAnswers ==
    {a \in UNION {[1..n -> Candidates] : n \in 0..MaxCands} :
        \A i, j \in 1..Len(a) :
            i < j => /\ Geq(a[i].value, a[j].value)
                     /\ a[i].language # a[j].language}

\* a faulty variant: every language the detector is sure of is given its own label
detect_language_unmapped(answer, s) ==
    IF is_low_signal(s) THEN [ret |-> "unknown", calls |-> 0]
    ELSE IF answer = <<>> \/ Lt(answer[1].value, MIN_CONFIDENCE)
         THEN [ret |-> "unknown", calls |-> 1]
         ELSE [ret |-> answer[1].language, calls |-> 1]

\* detect_language(detector, text), with answer what the detector returns for
\* text when it is asked; ret is the label returned and calls the number of
\* times the detector was asked
detect_language(answer, s) ==
    IF is_low_signal(s) THEN [ret |-> "unknown", calls |-> 0]
    ELSE LET ls == answer IN
         IF ls = <<>> THEN [ret |-> "unknown", calls |-> 1]
         ELSE LET top == ls[1] IN
              IF Lt(top.value, MIN_CONFIDENCE)
              THEN [ret |-> "unknown", calls |-> 1]
              ELSE [ret |-> DictGet(LANG_MAP, top.language, "other"),
                    calls |-> 1]

(***************************************************************************)
(* Specification SpecDetect: detect_language on one text                   *)
(***************************************************************************)
\* the pieces the texts are made of: four letters; a space and a Turkish,
\* an upper-case and a lower-case letter; a space and a word without a letter
\* of the two alphabets; a punctuation mark; one letter
Pieces == {<<"a", "b", "c", "d">>, <<" ", "s~", "I", "z">>,
           <<" ", "d~", "1", "_">>, <<"!">>, <<"e">>}

RECURSIVE Flatten(_)
Flatten(ss) == IF ss = <<>> THEN <<>> ELSE Head(ss) \o Flatten(Tail(ss))

DetectTexts ==
    {Flatten(ps) : ps \in UNION {[1..n -> Pieces] : n \in 0..MaxPieces}}

InitDetect ==
    /\ IdlePlan
    /\ IdleClean
    /\ IdlePipe
    /\ IdleAnalyze
    /\ IdleRun
    /\ text \in DetectTexts
    /\ langs = None
    /\ detected = None
    /\ detector_calls = 0

DetectLanguage ==
    /\ detected = None
    /\ \E answer \in DetectorAnswers :
          LET r == detect_language(answer, text) IN
          /\ detected' = r.ret
          /\ detector_calls' = detector_calls + r.calls
          /\ langs' = IF r.calls = 0 THEN None ELSE answer
    /\ UNCHANGED text
    /\ UNCHANGED otherThanDetect

NextDetect == DetectLanguage

SpecDetect == InitDetect /\ [][NextDetect]_vars

(***************************************************************************)
(* C4: a text with fewer than 2 word tokens or fewer than 8 alphabetic     *)
(* characters is labelled unknown, and the detector is not asked.  The     *)
(* alphabetic characters are counted both ways the sentence can be read:   *)
(* the letters of the two alphabets, and the letters of any script.        *)
(***************************************************************************)
C4_LowSignalIsUnknownWithoutDetector ==
    detected # None =>
        LET nwords == Len(FindAllRuns(text, WordChars))
            nalpha == Cardinality({i \in 1..Len(text) : text[i] \in AlphaChars})
            nletters == Cardinality({i \in 1..Len(text) :
                                        text[i] \in AlphaChars \cup OtherLetters})
        IN (nwords < 2 \/ nalpha < 8 \/ nletters < 8) =>
               /\ detected = "unknown"
               /\ detector_calls = 0
               /\ langs = None

\* two words but only seven letters: the gate closes on the letters alone
C4_Witness ==
    /\ detected = "unknown"
    /\ detector_calls = 0
    /\ Len(FindAllRuns(text, WordChars)) >= 2
    /\ Cardinality({i \in 1..Len(text) : text[i] \in AlphaChars}) = 7

\* eight letters in one word: the gate closes on the words alone
C4_WitnessOneWord ==
    /\ detected = "unknown"
    /\ detector_calls = 0
    /\ Len(FindAllRuns(text, WordChars)) = 1
    /\ Cardinality({i \in 1..Len(text) : text[i] \in AlphaChars}) >= 8

(***************************************************************************)
(* C5: for a text that passes the gate the label is unknown when the       *)
(* detector returns no candidate or the top candidate's confidence is      *)
(* below 0.35, else tr for Turkish, en for English and other for any other *)
(* top language; the label is always one of tr, en, other, unknown.        *)
(***************************************************************************)
C5_LabelFromTopCandidate ==
    detected # None =>
        /\ detected \in {"tr", "en", "other", "unknown"}
        /\ detector_calls = 1 =>
             /\ langs \in DetectorAnswers
             /\ (langs = <<>> \/ langs[1].value.num * 100 < 35 * langs[1].value.den)
                    => detected = "unknown"
             /\ (langs # <<>> /\ langs[1].value.num * 100 >= 35 * langs[1].value.den)
                    => /\ langs[1].language = "TURKISH" => detected = "tr"
                       /\ langs[1].language = "ENGLISH" => detected = "en"
                       /\ langs[1].language \notin {"TURKISH", "ENGLISH"}
                              => detected = "other"
        /\ detector_calls = 1 <=> ~is_low_signal(text)

\* the detector is sure, at exactly 0.35, of a language that has no label
C5_Witness ==
    /\ detected = "other"
    /\ detector_calls = 1
    /\ langs # <<>>
    /\ langs[1].language = "GERMAN"
    /\ langs[1].value = Rat(35, 100)

\* the detector names Turkish at 0.34 and the label is unknown
C5_WitnessLowConfidence ==
    /\ detected = "unknown"
    /\ detector_calls = 1
    /\ langs # <<>>
    /\ langs[1].language = "TURKISH"
    /\ langs[1].value = Rat(34, 100)

\* the detector returns no candidate
C5_WitnessNoCandidate ==
    /\ detected = "unknown" /\ detector_calls = 1 /\ langs = <<>>

(***************************************************************************)
(* Text normalisation: clean_text and what it calls                        *)
(***************************************************************************)
KEEP_EMOJIS == TRUE
\* nltk is not installed: maybe_stem returns the tokens whether or not
\* stemming is asked for
HAS_STEM == FALSE

TR_STOP ==
    {<<"v", "e">>, <<"i", "l", "e">>, <<"a", "m", "a">>,
     <<"f", "a", "k", "a", "t">>, <<"c~", "u~", "n", "k", "u~">>,
     <<"c~", "o", "k">>, <<"b", "i", "r">>, <<"b", "u">>, <<"s~", "u">>,
     <<"o">>, <<"d", "a">>, <<"d", "e">>, <<"m", "i">>, <<"m", "i~">>,
     <<"m", "u">>, <<"m", "u~">>, <<"i", "c~", "i", "n">>,
     <<"g", "i", "b", "i">>, <<"d", "a", "h", "a">>, <<"e", "n">>,
     <<"s~", "e", "y">>, <<"b", "e", "n">>, <<"s", "e", "n">>,
     <<"b", "i", "z">>, <<"s", "i", "z">>, <<"o", "n", "l", "a", "r">>,
     <<"v", "a", "r">>, <<"y", "o", "k">>, <<"o", "l", "a", "n">>,
     <<"o", "l", "a", "r", "a", "k">>, <<"y", "a">>, <<"k", "i">>}

EN_STOP ==
    {<<"t", "h", "e">>, <<"a">>, <<"a", "n">>, <<"a", "n", "d">>,
     <<"o", "r">>, <<"b", "u", "t">>, <<"b", "e", "c", "a", "u", "s", "e">>,
     <<"s", "o">>, <<"t", "o">>, <<"o", "f">>, <<"i", "n">>, <<"o", "n">>,
     <<"f", "o", "r">>, <<"w", "i", "t", "h">>, <<"i", "s">>,
     <<"a", "r", "e">>, <<"w", "a", "s">>, <<"w", "e", "r", "e">>,
     <<"b", "e">>, <<"b", "e", "e", "n">>, <<"i", "t">>,
     <<"t", "h", "i", "s">>, <<"t", "h", "a", "t">>, <<"i">>,
     <<"y", "o", "u">>, <<"w", "e">>, <<"t", "h", "e", "y">>, <<"m", "y">>,
     <<"y", "o", "u", "r">>, <<"o", "u", "r">>, <<"t", "h", "e", "i", "r">>}

\* s[i..] starts with p
HasPrefixAt(s, i, p) ==
    /\ i + Len(p) - 1 <= Len(s)
    /\ \A k \in 1..Len(p) : s[i + k - 1] = p[k]

\* the character references html.unescape knows, of those modelled; the
\* trailing semicolon is optional for each of them
Entities ==
    {[ref |-> <<"&", "a", "m", "p">>, char |-> "&"],
     [ref |-> <<"&", "l", "t">>, char |-> "<"],
     [ref |-> <<"&", "g", "t">>, char |-> ">"],
     [ref |-> <<"&", "#", "3", "9">>, char |-> "'"]}

\* html.unescape: one pass, left to right
RECURSIVE HtmlUnescape(_, _, _)
HtmlUnescape(s, i, acc) ==
    IF i > Len(s) THEN acc
    ELSE IF \E e \in Entities : HasPrefixAt(s, i, e.ref)
         THEN LET e == CHOOSE x \in Entities : HasPrefixAt(s, i, x.ref)
                  j == i + Len(e.ref)
              IN HtmlUnescape(s, IF j <= Len(s) /\ s[j] = ";" THEN j + 1 ELSE j,
                              Append(acc, e.char))
         ELSE HtmlUnescape(s, i + 1, Append(acc, s[i]))

\* str.replace(old, new) for a one-character old
ReplaceChar(s, old, new) ==
    Flatten([i \in 1..Len(s) |-> IF s[i] = old THEN new ELSE <<s[i]>>])

\* re.sub(r"\s+", " ", t)
RECURSIVE CollapseSpaces(_, _, _)
CollapseSpaces(s, i, acc) ==
    IF i > Len(s) THEN acc
    ELSE IF s[i] \in SpaceChars
         THEN IF i > 1 /\ s[i - 1] \in SpaceChars
              THEN CollapseSpaces(s, i + 1, acc)
              ELSE CollapseSpaces(s, i + 1, Append(acc, " "))
         ELSE CollapseSpaces(s, i + 1, Append(acc, s[i]))

\* re.sub(r"\s+", " ", t).strip()
SquashSpaces(s) == Strip(CollapseSpaces(s, 1, <<>>))

\* the length of the run of s[i] that starts at i
RECURSIVE RunLength(_, _, _)
RunLength(s, i, n) ==
    IF i + n <= Len(s) /\ s[i + n] = s[i] THEN RunLength(s, i, n + 1) ELSE n

\* re.sub(r"(.)\1{3,}", r"\1\1", s)
RECURSIVE RepeatedLoop(_, _, _)
RepeatedLoop(s, i, acc) ==
    IF i > Len(s) THEN acc
    ELSE LET n == RunLength(s, i, 1) IN
         IF n >= 4 /\ s[i] # "\n"
         THEN RepeatedLoop(s, i + n, acc \o <<s[i], s[i]>>)
         ELSE RepeatedLoop(s, i + 1, Append(acc, s[i]))

normalize_repeated_chars(s) == RepeatedLoop(s, 1, <<>>)

\* the end of the run of characters outside (inside, when within) S that
\* starts at i: the first index past it
RECURSIVE SkipWhile(_, _, _, _)
SkipWhile(s, i, S, within) ==
    IF i <= Len(s) /\ ((s[i] \in S) <=> within)
    THEN SkipWhile(s, i + 1, S, within) ELSE i

\* re.sub(r"http\S+|www\.\S+", " ", t)
RECURSIVE StripUrls(_, _, _)
StripUrls(s, i, acc) ==
    IF i > Len(s) THEN acc
    ELSE IF \/ /\ HasPrefixAt(s, i, <<"h", "t", "t", "p">>)
               /\ i + 4 <= Len(s) /\ s[i + 4] \notin SpaceChars
            \/ /\ HasPrefixAt(s, i, <<"w", "w", "w", ".">>)
               /\ i + 4 <= Len(s) /\ s[i + 4] \notin SpaceChars
         THEN StripUrls(s, SkipWhile(s, i + 4, SpaceChars, FALSE),
                        Append(acc, " "))
         ELSE StripUrls(s, i + 1, Append(acc, s[i]))

\* re.sub(r"@\w+", " ", t)
RECURSIVE StripMentions(_, _, _)
StripMentions(s, i, acc) ==
    IF i > Len(s) THEN acc
    ELSE IF s[i] = "@" /\ i + 1 <= Len(s) /\ s[i + 1] \in WordChars
         THEN StripMentions(s, SkipWhile(s, i + 1, WordChars, TRUE),
                            Append(acc, " "))
         ELSE StripMentions(s, i + 1, Append(acc, s[i]))

\* str.lower() of one character; dotted capital I becomes i and a combining
\* dot
LowerChar(c) ==
    CASE c \in AsciiUpper ->
            <<CHOOSE l \in AsciiLower :
                 \E k \in 1..26 :
                    /\ <<"A", "B", "C", "D", "E", "F", "G", "H", "I", "J", "K",
                         "L", "M", "N", "O", "P", "Q", "R", "S", "T", "U", "V",
                         "W", "X", "Y", "Z">>[k] = c
                    /\ <<"a", "b", "c", "d", "e", "f", "g", "h", "i", "j", "k",
                         "l", "m", "n", "o", "p", "q", "r", "s", "t", "u", "v",
                         "w", "x", "y", "z">>[k] = l>>
      [] c = "C~" -> <<"c~">>
      [] c = "G~" -> <<"g~">>
      [] c = "I~" -> <<"i", "dot~">>
      [] c = "O~" -> <<"o~">>
      [] c = "S~" -> <<"s~">>
      [] c = "U~" -> <<"u~">>
      [] OTHER -> <<c>>

\* str.lower()
Lower(s) == Flatten([i \in 1..Len(s) |-> LowerChar(s[i])])

\* re.sub(r"[^\w\s...]", " ", t): what is no word character, no space and no
\* Turkish lower-case letter becomes a space
BlankNonWord(s) ==
    [i \in 1..Len(s) |->
        IF s[i] \in WordChars \cup SpaceChars \cup TrLower THEN s[i] ELSE " "]

\* tokenize (preprocess.py)
tokenize(s) == FindAllRuns(Lower(s), TokenChars)

\* unidecode of a token
UnidecodeChar(c) ==
    CASE c = "c~" -> "c"
      [] c = "g~" -> "g"
      [] c = "i~" -> "i"
      [] c = "o~" -> "o"
      [] c = "s~" -> "s"
      [] c = "u~" -> "u"
      [] OTHER -> c
unidecode(w) == [i \in 1..Len(w) |-> UnidecodeChar(w[i])]

\* maybe_stem: the tokens as they are, stemming being off or unavailable
maybe_stem(tokens, l, enable) ==
    IF ~enable THEN tokens
    ELSE IF ~HAS_STEM THEN tokens
    ELSE tokens

\* " ".join(tokens)
RECURSIVE JoinSpace(_)
JoinSpace(tokens) ==
    IF tokens = <<>> THEN <<>>
    ELSE IF Len(tokens) = 1 THEN tokens[1]
    ELSE tokens[1] \o <<" ">> \o JoinSpace(Tail(tokens))

clean_text(s, b, enable_stem) ==
    IF s = NoneText THEN <<>>
    ELSE
    LET t1 == HtmlUnescape(Str(s), 1, <<>>)
        t2 == ReplaceChar(ReplaceChar(t1, "\n", <<" ">>), "\r", <<" ">>)
        t3 == SquashSpaces(t2)
        t4 == normalize_repeated_chars(t3)
        t5 == StripUrls(t4, 1, <<>>)
        t6 == StripMentions(t5, 1, <<>>)
        t7 == ReplaceChar(t6, "#", <<>>)
        t8 == IF ~KEEP_EMOJIS THEN ReplaceChar(t7, "emo~", <<" ">>) ELSE t7
        t9 == Lower(t8)
        t10 == BlankNonWord(t9)
        t11 == SquashSpaces(t10)
        tokens == tokenize(t11)
        kept ==
            IF b = "tr"
            THEN maybe_stem(SelectSeq(tokens, LAMBDA w : w \notin TR_STOP),
                            "tr", enable_stem)
            ELSE IF b = "en"
            THEN LET plain == [i \in 1..Len(tokens) |-> unidecode(tokens[i])]
                 IN maybe_stem(SelectSeq(plain, LAMBDA w : w \notin EN_STOP),
                               "en", enable_stem)
            ELSE tokens
    IN JoinSpace(kept)

(***************************************************************************)
(* Specification SpecClean: clean_text on one text, then on its own output *)
(***************************************************************************)
Buckets == {"tr", "en", "others", "unknown"}

CleanAlphabet == {"a", "A", "#", " "}

\* texts that reach the parts of clean_text the alphabet does not
SampleTexts ==
    {<<"H", "T", "T", "P", "S", " ", "o", "k">>,
     <<"h", "t", "t", "p", ":", "/", "/", "x", ".", "y", " ", "o", "k">>,
     <<"w", "w", "w", ".", "x", " ", "t", "h", "e", " ", "v", "e">>,
     <<"a", "&", "a", "m", "p", ";", "b", "\n", "@", "x", "_", "1", " ", "!">>,
     <<"I~", "y", "i", " ", "v", "e", " ", "C~", "O", "K", " ", "emo~">>,
     <<"o~", "o~", "O", "O", " ", "i", "s", " ", "d~", "e~">>,
     <<"s", "o", "o", "o", "o", "o", " ", "g", "o", "o", "d">>}

CleanTexts ==
    UNION {[1..n -> CleanAlphabet] : n \in 0..MaxTextLen} \cup SampleTexts

InitClean ==
    /\ IdlePlan
    /\ IdleDetect
    /\ IdlePipe
    /\ IdleAnalyze
    /\ IdleRun
    /\ raw_text \in CleanTexts
    /\ cbucket \in Buckets
    /\ clean1 = None
    /\ clean2 = None
    /\ cpc = "raw"

Normalize ==
    /\ cpc = "raw"
    /\ clean1' = clean_text(raw_text, cbucket, FALSE)
    /\ cpc' = "once"
    /\ UNCHANGED <<raw_text, cbucket, clean2>>
    /\ UNCHANGED otherThanClean

NormalizeAgain ==
    /\ cpc = "once"
    /\ clean2' = clean_text(clean1, cbucket, FALSE)
    /\ cpc' = "twice"
    /\ UNCHANGED <<raw_text, cbucket, clean1>>
    /\ UNCHANGED otherThanClean

NextClean == Normalize \/ NormalizeAgain

SpecClean == InitClean /\ [][NextClean]_vars

(***************************************************************************)
(* C7: clean_text applied to its own output, with the same bucket and      *)
(* stemming off, returns that output unchanged.                            *)
(***************************************************************************)
C7_CleanTextIsStableOnItsOutput ==
    cpc = "twice" => clean2 = clean1

(***************************************************************************)
(* process_file and the per-bucket split of preprocess_run                 *)
(***************************************************************************)
\* the comment ids and texts of the rows of raw/all.csv
CommentIds == {"id1", "id2"}
PipeTexts ==
    {NaNText,
     <<"!", "!">>,
     <<"v", "e", " ", "i", "l", "e", " ", "a", "m", "a">>,
     <<"N", "i", "c", "e", " ", "v", "i", "d", "e", "o">>}
PipeThresholds == {ANALYZE_THRESHOLD, Rat(3, 5)}
\* what the detector answers to the texts of the pipeline
PipeAnswers ==
    {<<>>,
     <<[language |-> "TURKISH", value |-> Rat(1, 1)]>>,
     <<[language |-> "ENGLISH", value |-> Rat(35, 100)]>>,
     <<[language |-> "GERMAN", value |-> Rat(1, 1)]>>,
     <<[language |-> "TURKISH", value |-> Rat(34, 100)]>>}

CsvRows == [comment_id : CommentIds, text : PipeTexts]

\* pd.read_csv: every row of the file, under the index 1..n (field row)
read_csv(rows) ==
    [k \in 1..Len(rows) |->
        [row |-> k, comment_id |-> rows[k].comment_id, text |-> rows[k].text]]

\* a faulty variant: the rows are not deduplicated
drop_duplicates_noop(d) == d

\* df.drop_duplicates(subset=["comment_id"]): the first row of each comment_id
drop_duplicates(d) ==
    SelectSeq(d, LAMBDA r :
        \A j \in 1..Len(d) :
            d[j].comment_id = r.comment_id => d[j].row >= r.row)

\* df[name] = column
WithColumn(d, name, column) ==
    [k \in 1..Len(d) |->
        [f \in DOMAIN d[k] \cup {name} |->
            IF f = name THEN column[k] ELSE d[k][f]]]

\* df["lang"].value_counts()
value_counts(d) ==
    [l \in {d[k].lang : k \in 1..Len(d)} |->
        Cardinality({k \in 1..Len(d) : d[k].lang = l})]

\* len(x.split()) if x else 0
word_count_of(s) ==
    IF s = <<>> THEN 0
    ELSE Len(FindAllRuns(s, NonSpaceChars))

\* a faulty variant: the rows of the unknown bucket are not written
groupby_bucket_known(d) ==
    [b \in {d[k].bucket : k \in 1..Len(d)} \ {"unknown"} |->
        SelectSeq(d, LAMBDA r : r.bucket = b)]

\* df.groupby("bucket"): bucket -> its rows, in the order of df
groupby_bucket(d) ==
    [b \in {d[k].bucket : k \in 1..Len(d)} |->
        SelectSeq(d, LAMBDA r : r.bucket = b)]

(***************************************************************************)
(* sub.to_csv(out_path, index=False) and pd.read_csv(in_path).  A file is  *)
(* a sequence of lines, a line gives each column's field as a text.        *)
(* Fields that need quotes are written with them and read back as written, *)
(* so quoting is left out.  Of the numbers read_csv recognises, the model  *)
(* has the unsigned decimal integers.                                      *)
(***************************************************************************)
LabelColumns == {"comment_id", "lang", "bucket"}   \* ids and labels
TextColumns == {"text", "clean_text"}
IntColumns == {"char_count", "word_count"}

RECURSIVE IntToText(_), ParseInt(_)
DigitSeq == <<"0", "1", "2", "3", "4", "5", "6", "7", "8", "9">>
DigitValue(c) == (CHOOSE i \in 1..Len(DigitSeq) : DigitSeq[i] = c) - 1

\* str(n) of an int n >= 0
IntToText(n) ==
    IF n < Len(DigitSeq) THEN <<DigitSeq[n + 1]>>
    ELSE IntToText(n \div Len(DigitSeq))
             \o <<DigitSeq[(n % Len(DigitSeq)) + 1]>>

\* int(s) of a text of digits
ParseInt(s) ==
    IF s = <<>> THEN 0
    ELSE ParseInt(SubSeq(s, 1, Len(s) - 1)) * Len(DigitSeq)
             + DigitValue(s[Len(s)])

\* to_csv, one value of a column of texts: NaN is written as nothing
\* (na_rep=""), and so is the empty string
to_csv_text(v) == IF v = NaNText THEN <<>> ELSE v

\* sub.to_csv(out_path, index=False): the index (field row) is not written
to_csv(sub) ==
    [k \in 1..Len(sub) |->
        [f \in LabelColumns \cup TextColumns \cup IntColumns |->
            IF f \in LabelColumns THEN sub[k][f]
            ELSE IF f \in TextColumns THEN to_csv_text(sub[k][f])
            ELSE IntToText(sub[k][f])]]

\* the fields pd.read_csv takes for a missing value (its default na_values)
NA_VALUES ==
    {<<>>,
     <<"#", "N", "/", "A">>,
     <<"#", "N", "/", "A", " ", "N", "/", "A">>,
     <<"#", "N", "A">>,
     <<"-", "1", ".", "#", "I", "N", "D">>,
     <<"-", "1", ".", "#", "Q", "N", "A", "N">>,
     <<"-", "N", "a", "N">>,
     <<"-", "n", "a", "n">>,
     <<"1", ".", "#", "I", "N", "D">>,
     <<"1", ".", "#", "Q", "N", "A", "N">>,
     <<"<", "N", "A", ">">>,
     <<"N", "/", "A">>,
     <<"N", "A">>,
     <<"N", "U", "L", "L">>,
     <<"N", "a", "N">>,
     <<"N", "o", "n", "e">>,
     <<"n", "/", "a">>,
     <<"n", "a", "n">>,
     <<"n", "u", "l", "l">>}

IsIntLiteral(field) ==
    /\ field # <<>>
    /\ \A i \in 1..Len(field) : field[i] \in Digits

\* pd.read_csv, one column: a field of NA_VALUES is NaN; when every other
\* field is an integer the column is one of numbers, int64 without a NaN
\* and float64 with one; else the fields stay the texts they are
read_csv_column(fields) ==
    LET isna(k) == fields[k] \in NA_VALUES
        rows == 1..Len(fields)
        numeric == /\ \E k \in rows : ~isna(k)
                   /\ \A k \in rows : isna(k) \/ IsIntLiteral(fields[k])
        tag == IF \E k \in rows : isna(k) THEN Float64Tag ELSE Int64Tag
    IN [k \in rows |->
           IF isna(k) THEN NaNText
           ELSE IF numeric
                THEN <<tag>> \o IntToText(ParseInt(fields[k]))
           ELSE fields[k]]

\* pd.read_csv(in_path) of a file of processed/: [columns, rows]
read_csv_file(file) ==
    LET column(f) == read_csv_column([k \in 1..Len(file) |-> file[k][f]])
    IN [columns |-> LabelColumns \cup TextColumns \cup IntColumns,
        rows |->
           [k \in 1..Len(file) |->
               [f \in {"row"} \cup LabelColumns \cup TextColumns
                                 \cup IntColumns |->
                   IF f = "row" THEN k
                   ELSE IF f \in LabelColumns THEN file[k][f]
                   ELSE IF f \in TextColumns THEN column(f)[k]
                   ELSE ParseInt(file[k][f])]]]

\* the state process_file starts in, for a raw/all.csv with rows of rowset
InitPipeOn(rowset) ==
    /\ threshold2 = None
    /\ analyze_langs2 = None
    /\ lang = None
    /\ bucket_of = None
    /\ ppc = "idle"
    /\ IdleDetect
    /\ IdleClean
    /\ IdleAnalyze
    /\ csv \in [has_id : BOOLEAN,
                rows : UNION {[1..n -> rowset] : n \in 1..MaxRows}]
    /\ threshold \in PipeThresholds
    /\ lang_counts = None
    /\ analyze_langs = None
    /\ df = None
    /\ col = <<>>
    /\ outputs = None
    /\ processed = None
    /\ pc = "read"
    /\ results = <<>>
    /\ bi = 1
    /\ rpc = "waiting"

InitPipe == InitPipeOn(CsvRows)

\* lines 148-155: read the file, drop the rows that repeat a comment_id
ReadCsv ==
    /\ pc = "read"
    /\ df' = IF csv.has_id THEN drop_duplicates(read_csv(csv.rows))
             ELSE read_csv(csv.rows)
    /\ col' = <<>>
    /\ pc' = "classify"
    /\ UNCHANGED <<csv, outputs, processed, lang_counts, threshold,
                   analyze_langs>>
    /\ UNCHANGED otherThanPipe

\* line 165, one row of the apply: detect_language on the row's text
ClassifyRow ==
    /\ pc = "classify"
    /\ Len(col) < Len(df)
    /\ \E answer \in PipeAnswers :
          col' = Append(col,
                    detect_language(answer, Str(df[Len(col) + 1].text)).ret)
    /\ UNCHANGED <<csv, df, outputs, processed, pc, lang_counts, threshold,
                   analyze_langs>>
    /\ UNCHANGED otherThanPipe

\* line 165, the assignment of the column
SetLang ==
    /\ pc = "classify"
    /\ Len(col) = Len(df)
    /\ df' = WithColumn(df, "lang", col)
    /\ col' = <<>>
    /\ pc' = "plan"
    /\ UNCHANGED <<csv, outputs, processed, lang_counts, threshold,
                   analyze_langs>>
    /\ UNCHANGED otherThanPipe

\* lines 167-168
PlanBuckets ==
    /\ pc = "plan"
    /\ lang_counts' = value_counts(df)
    /\ analyze_langs' = decide_analyze_langs(value_counts(df), threshold)
    /\ pc' = "assign"
    /\ UNCHANGED <<csv, df, col, outputs, processed, threshold>>
    /\ UNCHANGED otherThanPipe

\* a faulty variant: the plan is recomputed for each row, from the rows up to it
AssignRow_replanning ==
    /\ pc = "assign"
    /\ Len(col) < Len(df)
    /\ LET seen == SubSeq(df, 1, Len(col) + 1)
           plan == decide_analyze_langs(value_counts(seen), threshold)
       IN /\ lang_counts' = value_counts(seen)
          /\ analyze_langs' = plan
          /\ col' = Append(col, bucket(df[Len(col) + 1].lang, plan))
    /\ UNCHANGED <<csv, df, outputs, processed, pc, threshold>>
    /\ UNCHANGED otherThanPipe

\* line 177, one row of the apply
AssignRow ==
    /\ pc = "assign"
    /\ Len(col) < Len(df)
    /\ col' = Append(col, bucket(df[Len(col) + 1].lang, analyze_langs))
    /\ UNCHANGED <<csv, df, outputs, processed, pc, lang_counts, threshold,
                   analyze_langs>>
    /\ UNCHANGED otherThanPipe

\* line 177, the assignment of the column
SetBucket ==
    /\ pc = "assign"
    /\ Len(col) = Len(df)
    /\ df' = WithColumn(df, "bucket", col)
    /\ col' = <<>>
    /\ pc' = "clean"
    /\ UNCHANGED <<csv, outputs, processed, lang_counts, threshold,
                   analyze_langs>>
    /\ UNCHANGED otherThanPipe

\* lines 178-181: clean_text, char_count and word_count of every row
CleanRows ==
    /\ pc = "clean"
    /\ LET cleaned == [k \in 1..Len(df) |->
                          clean_text(df[k].text, df[k].bucket, FALSE)]
           d1 == WithColumn(df, "clean_text", cleaned)
           d2 == WithColumn(d1, "char_count",
                            [k \in 1..Len(df) |-> Len(Str(cleaned[k]))])
       IN df' = WithColumn(d2, "word_count",
                           [k \in 1..Len(df) |-> word_count_of(Str(cleaned[k]))])
    /\ pc' = "split"
    /\ UNCHANGED <<csv, col, outputs, processed, lang_counts, threshold,
                   analyze_langs>>
    /\ UNCHANGED otherThanPipe

\* lines 218-223: one collection per bucket, each written to its file
SplitBuckets ==
    /\ pc = "split"
    /\ outputs' = groupby_bucket(df)
    /\ processed' = [b \in DOMAIN groupby_bucket(df) |->
                        to_csv(groupby_bucket(df)[b])]
    /\ pc' = "done"
    /\ UNCHANGED <<csv, df, col, lang_counts, threshold, analyze_langs>>
    /\ UNCHANGED otherThanPipe

Next ==
    \/ ReadCsv
    \/ ClassifyRow
    \/ SetLang
    \/ PlanBuckets
    \/ AssignRow
    \/ SetBucket
    \/ CleanRows
    \/ SplitBuckets

Spec == InitPipe /\ [][Next]_vars

(***************************************************************************)
(* C6, as claimed: every row of the input file is in exactly one bucket's  *)
(* collection, exactly once, and both the language counts and the sizes of *)
(* the collections add up to the number of input rows.                     *)
(***************************************************************************)
\* the places (bucket, position) at which input row k was written
PlacesOf(k) ==
    {p \in UNION {{<<b, j>> : j \in 1..Len(outputs[b])} : b \in DOMAIN outputs} :
        outputs[p[1]][p[2]].row = k}

OutputSizes == [b \in DOMAIN outputs |-> Len(outputs[b])]

C6_EveryInputRowOnce ==
    pc = "done" =>
        /\ \A k \in 1..Len(csv.rows) : Cardinality(PlacesOf(k)) = 1
        /\ SumOver(lang_counts, DOMAIN lang_counts) = Len(csv.rows)
        /\ SumOver(OutputSizes, DOMAIN outputs) = Len(csv.rows)

(***************************************************************************)
(* C6, amended: the rows that survive the deduplication of process_file    *)
(* (all rows when the file has no comment_id column, else the first row of *)
(* each comment_id) are each in exactly one bucket's collection, exactly   *)
(* once and unchanged, the other rows are in none, and both the language   *)
(* counts and the sizes of the collections add up to the number of         *)
(* surviving rows.                                                         *)
(***************************************************************************)
Survives(k) ==
    \/ ~csv.has_id
    \/ \A j \in 1..(k - 1) : csv.rows[j].comment_id # csv.rows[k].comment_id

C6_EverySurvivingRowOnce ==
    pc = "done" =>
        LET kept == {k \in 1..Len(csv.rows) : Survives(k)} IN
        /\ \A k \in kept :
              /\ Cardinality(PlacesOf(k)) = 1
              /\ \A p \in PlacesOf(k) :
                    /\ outputs[p[1]][p[2]].text = csv.rows[k].text
                    /\ outputs[p[1]][p[2]].comment_id = csv.rows[k].comment_id
                    /\ outputs[p[1]][p[2]].bucket = p[1]
        /\ \A k \in (1..Len(csv.rows)) \ kept : PlacesOf(k) = {}
        /\ SumOver(lang_counts, DOMAIN lang_counts) = Cardinality(kept)
        /\ SumOver(OutputSizes, DOMAIN outputs) = Cardinality(kept)

\* a run that dropped a repeated comment_id and wrote the rest
C6_Witness ==
    /\ pc = "done"
    /\ csv.has_id
    /\ Len(df) < Len(csv.rows)
    /\ DOMAIN outputs # {}

\* a run without repeats that wrote two buckets
C6_WitnessTwoBuckets ==
    /\ pc = "done"
    /\ Len(df) = Len(csv.rows)
    /\ Cardinality(DOMAIN outputs) >= 2

(***************************************************************************)
(* C11: in every run of process_file the bucket plan is computed exactly   *)
(* once, after every row has its language and before any row has a bucket; *)
(* every row is assigned with that one plan, which never changes once it   *)
(* is computed.                                                            *)
(***************************************************************************)
\* the positions of process_file, in program order
PcOrder == <<"read", "classify", "plan", "assign", "clean", "split", "done">>
Rank(p) == CHOOSE i \in 1..Len(PcOrder) : PcOrder[i] = p

\* the plan has been computed
Planned == Rank(pc) > Rank("plan")

C11_StateOfThePlan ==
    \* not yet computed: no row has a bucket
    /\ pc = "read" => analyze_langs = None /\ lang_counts = None
    /\ pc \in {"classify", "plan"} =>
          /\ analyze_langs = None
          /\ lang_counts = None
          /\ \A k \in 1..Len(df) : "bucket" \notin DOMAIN df[k]
    \* about to be computed: every row has its language, no bucket is begun
    /\ pc = "plan" =>
          /\ col = <<>>
          /\ Len(df) = Cardinality({k \in 1..Len(csv.rows) : Survives(k)})
          /\ \A k \in 1..Len(df) : "lang" \in DOMAIN df[k]
    \* computed: it is the plan of the whole corpus, and every bucket
    \* assigned so far was looked up in it
    /\ Planned =>
          /\ lang_counts = value_counts(df)
          /\ analyze_langs = decide_analyze_langs(value_counts(df), threshold)
    /\ pc = "assign" =>
          \A k \in 1..Len(col) : col[k] = bucket(df[k].lang, analyze_langs)
    /\ Rank(pc) > Rank("assign") =>
          \A k \in 1..Len(df) : df[k].bucket = bucket(df[k].lang, analyze_langs)

C11_StepOfThePlan ==
    \* the program only moves forward, and leaves "plan" in one step
    /\ Rank(pc') >= Rank(pc)
    /\ pc = "plan" => pc' = "assign"
    \* the plan is written by that step and by no other
    /\ pc # "plan" => UNCHANGED <<lang_counts, analyze_langs, threshold>>
    \* the languages it was computed from do not change afterwards
    /\ Planned =>
          \A k \in 1..Len(df) : Len(df') = Len(df) /\ df'[k].lang = df[k].lang

C11_PlanComputedOnceBetweenClassifyAndAssign ==
    /\ []C11_StateOfThePlan
    /\ [][C11_StepOfThePlan]_vars

\* a finished run of two rows in two buckets, one of them a planned language
C11_Witness ==
    /\ pc = "done"
    /\ Len(df) = 2
    /\ analyze_langs # {}
    /\ df[1].bucket \in analyze_langs
    /\ df[2].bucket = "others"

\* a finished run whose plan is empty
C11_WitnessEmptyPlan ==
    /\ pc = "done"
    /\ Len(df) = 2
    /\ analyze_langs = {}

(***************************************************************************)
(* analyze_one (analyze_basic.py)                                          *)
(***************************************************************************)
TOP_N == 50          \* head(50) of the word and bigram tables
TOP_LIKED == 15      \* head(15) of the most liked comments
NaNFloat == Rat(0, 0)     \* the mean of an empty column

\* tokenize (analyze_basic.py)
an_tokenize(s) == FindAllRuns(Lower(s), TokenChars)

\* tokens[i:i+n]
Slice(s, from, to) == SubSeq(s, from, IF to < Len(s) THEN to ELSE Len(s))

\* ngrams(tokens, n): one item for each i in range(len(tokens) - n + 1)
ngrams(tokens, n) ==
    [i \in 1..(IF Len(tokens) - n + 1 > 0 THEN Len(tokens) - n + 1 ELSE 0) |->
        JoinSpace(Slice(tokens, i, i + n - 1))]

\* lines 40-42: the tokens of every row's clean_text, one list
all_tokens_of(rows) ==
    Flatten([k \in 1..Len(rows) |-> an_tokenize(Str(rows[k].clean_text))])

\* a faulty variant: the bigrams are taken from the one list of all tokens
all_bigrams_of_stream(rows) == ngrams(all_tokens_of(rows), 2)

\* lines 49-52: the bigrams of every row's clean_text, one list
all_bigrams_of(rows) ==
    Flatten([k \in 1..Len(rows) |->
                ngrams(an_tokenize(Str(rows[k].clean_text)), 2)])

\* a faulty variant: tokens per type
ttr_of_inverted(vocab, tokens) ==
    IF tokens # <<>> THEN Rat(Len(tokens), Cardinality(vocab)) ELSE Rat(0, 1)

\* line 44
ttr_of(vocab, tokens) ==
    IF tokens # <<>> THEN Rat(Cardinality(vocab), Len(tokens)) ELSE Rat(0, 1)

\* the distinct items of a list, in the order of their first occurrence
RECURSIVE Uniq(_, _)
Uniq(s, acc) ==
    IF s = <<>> THEN acc
    ELSE IF \E i \in 1..Len(acc) : acc[i] = Head(s)
         THEN Uniq(Tail(s), acc)
         ELSE Uniq(Tail(s), Append(acc, Head(s)))

RemoveAt(s, i) == SubSeq(s, 1, i - 1) \o SubSeq(s, i + 1, Len(s))

\* a stable sort, largest count first
RECURSIVE SortByCountDesc(_)
SortByCountDesc(s) ==
    IF s = <<>> THEN <<>>
    ELSE LET m == CHOOSE i \in 1..Len(s) :
                     /\ \A j \in 1..Len(s) : s[i].count >= s[j].count
                     /\ \A j \in 1..(i - 1) : s[j].count < s[i].count
         IN <<s[m]>> \o SortByCountDesc(RemoveAt(s, m))

\* pd.Series(items).value_counts(): the items and their counts, the most
\* frequent first, equal counts in the order of first occurrence
series_value_counts(items) ==
    LET u == Uniq(items, <<>>) IN
    SortByCountDesc([i \in 1..Len(u) |->
        [item |-> u[i],
         count |-> Cardinality({k \in 1..Len(items) : items[k] = u[i]})]])

\* DataFrame.head(n)
HeadN(s, n) == SubSeq(s, 1, IF n < Len(s) THEN n ELSE Len(s))

\* Series.mean()
Mean(rows, field) ==
    IF rows = <<>> THEN NaNFloat
    ELSE Rat(SumOver([k \in 1..Len(rows) |-> rows[k][field]], 1..Len(rows)),
             Len(rows))

\* the orders df.sort_values("like_count", ascending=False) can give: rows of
\* equal like_count come in any order (the default sort is not stable)
SortedByLikes(rows) ==
    {p \in [1..Len(rows) -> 1..Len(rows)] :
        /\ \A i, j \in 1..Len(rows) : i # j => p[i] # p[j]
        /\ \A i, j \in 1..Len(rows) :
              i < j => rows[p[i]].like_count >= rows[p[j]].like_count}

\* df[[c for c in wanted if c in df.columns]] of one row; the index stays
Project(r, wanted, columns) ==
    [f \in (wanted \cap columns) \cup {"row"} |-> r[f]]

\* a published_at cell: an ISO instant with a UTC offset, or something that
\* is no timestamp
Iso(d, h, off) == [kind |-> "iso", day |-> d, hour |-> h, offset |-> off]
BadTimestamp == [kind |-> "bad", day |-> 0, hour |-> 0, offset |-> 0]
NaT == [nat |-> TRUE, raised |-> FALSE, day |-> 0, hour |-> 0]
Instant(d, h) == [nat |-> FALSE, raised |-> FALSE, day |-> d, hour |-> h]
\* the exception pd.to_datetime raises under errors="raise"
ParseError == [nat |-> TRUE, raised |-> TRUE, day |-> 0, hour |-> 0]
NoPath == <<>>            \* None where a path is expected

\* a faulty variant: errors="raise"
to_datetime_raise(ts) ==
    IF ts.kind = "iso" THEN Instant(ts.day, ts.hour) ELSE ParseError

\* pd.to_datetime(x, errors="coerce", utc=True) of one cell: the instant in
\* UTC, NaT for what does not parse
to_datetime(ts) ==
    IF ts.kind = "iso"
    THEN LET h == ts.hour - ts.offset IN
         IF h < 0 THEN Instant(ts.day - 1, h + 24)
         ELSE IF h >= 24 THEN Instant(ts.day + 1, h - 24)
         ELSE Instant(ts.day, h)
    ELSE NaT

\* a faulty variant: the rows without a timestamp are not dropped
dropna_noop(parsed) == parsed

\* tmp.dropna(subset=["published_at"])
dropna(parsed) == SelectSeq(parsed, LAMBDA x : ~x.nat)

\* an ascending sort of a set of numbers
RECURSIVE SortAsc(_)
SortAsc(S) ==
    IF S = {} THEN <<>>
    ELSE LET m == CHOOSE x \in S : \A y \in S : x <= y
         IN <<m>> \o SortAsc(S \ {m})

\* lines 66-70: one line per date, the dates ascending
time_summary_of(rows) ==
    LET parsed == [k \in 1..Len(rows) |-> to_datetime(rows[k].published_at)]
        tmp == dropna(parsed)
        dates == SortAsc({tmp[k].day : k \in 1..Len(tmp)})
    IN [i \in 1..Len(dates) |->
           [date |-> dates[i],
            comment_count |->
                Cardinality({k \in 1..Len(tmp) : tmp[k].day = dates[i]})]]

\* analyze_one, given the order the sort by like_count came out in
analyze_one(d, likes_order, tag) ==
    LET rows == d.rows
        tokens == all_tokens_of(rows)
        vocab == {tokens[i] : i \in 1..Len(tokens)}
        bigrams == all_bigrams_of(rows)
        top_like ==
            IF "like_count" \in d.columns
            THEN HeadN([i \in 1..Len(rows) |->
                           Project(rows[likes_order[i]],
                                   {"like_count", "published_at", "author",
                                    "text", "clean_text"}, d.columns)],
                       TOP_LIKED)
            ELSE <<>>
        time_summary ==
            IF "published_at" \in d.columns THEN time_summary_of(rows)
            ELSE <<>>
    IN [n_comments |-> Len(rows),
        n_authors |-> IF "author" \in d.columns
                      THEN Cardinality({rows[k].author : k \in 1..Len(rows)})
                      ELSE None,
        avg_words |-> Mean(rows, "word_count"),
        avg_chars |-> Mean(rows, "char_count"),
        all_tokens |-> tokens,
        vocab_size |-> Cardinality(vocab),
        ttr |-> ttr_of(vocab, tokens),
        word_freq |-> HeadN(series_value_counts(tokens), TOP_N),
        all_bigrams |-> bigrams,
        bigram_freq |-> HeadN(series_value_counts(bigrams), TOP_N),
        top_like |-> top_like,
        time_summary |-> time_summary,
        top_like_path |-> IF top_like # <<>> THEN <<tag, "_top_liked.csv">>
                          ELSE NoPath,
        time_path |-> IF time_summary # <<>>
                      THEN <<tag, "_time_distribution.csv">> ELSE NoPath]

(***************************************************************************)
(* Specification SpecAnalyze: analyze_one on one DataFrame                 *)
(***************************************************************************)
AnalyzeTexts ==
    {<<>>, NaNText, <<"a", " ", "b">>, <<"b", " ", "a", " ", "b">>}
Timestamps == {Iso(1, 10, 0), Iso(2, 1, 3), Iso(2, 5, 0), BadTimestamp}
LikeCounts == {0, 7}
OptionalColumns == {"like_count", "published_at"}

AnalyzeCells ==
    [clean_text : AnalyzeTexts, published_at : Timestamps,
     like_count : LikeCounts]

\* the rows as preprocess wrote them: the index, and the two counts that
\* were taken from clean_text (an empty clean_text is read back as NaN)
MakeRows(cells, columns) ==
    [k \in 1..Len(cells) |->
        [f \in {"row", "clean_text", "char_count", "word_count"} \cup columns |->
            CASE f = "row" -> k
              [] f = "char_count" ->
                    IF cells[k].clean_text = NaNText THEN 0
                    ELSE Len(cells[k].clean_text)
              [] f = "word_count" ->
                    IF cells[k].clean_text = NaNText THEN 0
                    ELSE word_count_of(cells[k].clean_text)
              [] OTHER -> cells[k][f]]]

InitAnalyze ==
    /\ IdlePlan
    /\ IdleDetect
    /\ IdleClean
    /\ IdlePipe
    /\ IdleRun
    /\ \E columns \in SUBSET OptionalColumns :
       \E cells \in UNION {[1..n -> AnalyzeCells] : n \in 0..MaxDfRows} :
          adf = [columns |-> {"clean_text", "char_count", "word_count"}
                                \cup columns,
                 rows |-> MakeRows(cells, columns)]
    /\ report = <<>>
    /\ apc = "loaded"

AnalyzeOne ==
    /\ apc = "loaded"
    /\ IF /\ "published_at" \in adf.columns
          /\ \E k \in 1..Len(adf.rows) :
                to_datetime(adf.rows[k].published_at).raised
       THEN /\ apc' = "aborted"
            /\ report' = report
       ELSE /\ apc' = "analyzed"
            /\ \E order \in IF "like_count" \in adf.columns
                            THEN SortedByLikes(adf.rows)
                            ELSE {<<>>} :
                  report' = analyze_one(adf, order, "tr")
    /\ UNCHANGED adf
    /\ UNCHANGED otherThanAnalyze

NextAnalyze == AnalyzeOne

SpecAnalyze == InitAnalyze /\ [][NextAnalyze]_vars

(***************************************************************************)
(* C8: the Type-Token Ratio is between 0 and 1; it is (distinct tokens) /  *)
(* (tokens) for a non-empty stream, exactly 1 when all tokens are          *)
(* distinct, and 0, with nothing divided by zero, for an empty stream.     *)
(***************************************************************************)
\* the token stream, taken from the rows
StreamOf(rows) ==
    Flatten([k \in 1..Len(rows) |->
                FindAllRuns(Lower(Str(rows[k].clean_text)), TokenChars)])

C8_TypeTokenRatio ==
    apc = "analyzed" =>
        LET stream == StreamOf(adf.rows)
            distinct == Cardinality({stream[i] : i \in 1..Len(stream)})
            ttr == report.ttr
        IN /\ ttr.den > 0
           /\ 0 <= ttr.num /\ ttr.num <= ttr.den
           /\ stream # <<>> => ttr.num * Len(stream) = distinct * ttr.den
           /\ (stream # <<>> /\ distinct = Len(stream)) => ttr.num = ttr.den
           /\ stream = <<>> => ttr.num = 0
           /\ report.vocab_size = distinct

\* a stream with a repeated token: the ratio is strictly between 0 and 1
C8_Witness ==
    /\ apc = "analyzed"
    /\ report.ttr.num > 0
    /\ report.ttr.num < report.ttr.den
    /\ Len(adf.rows) = 2

\* rows, and no token at all
C8_WitnessEmptyStream ==
    /\ apc = "analyzed" /\ Len(adf.rows) > 0 /\ report.all_tokens = <<>>
    /\ report.ttr = Rat(0, 1)

(***************************************************************************)
(* C9: bigrams are made row by row: a row of k tokens gives max(k-1, 0)    *)
(* bigrams, each two tokens adjacent in that row, in order; the bucket's   *)
(* bigrams are those of its rows put together, and none joins the last     *)
(* token of a row to the first token of the next.                          *)
(***************************************************************************)
RowTokens(k) == FindAllRuns(Lower(Str(adf.rows[k].clean_text)), TokenChars)
RowBigramCount(k) == IF Len(RowTokens(k)) > 1 THEN Len(RowTokens(k)) - 1 ELSE 0
RowBigramCounts == [k \in 1..Len(adf.rows) |-> RowBigramCount(k)]
\* the number of bigrams of the rows before row k
RowOffset(k) == SumOver(RowBigramCounts, 1..(k - 1))

C9_BigramsStayInsideRows ==
    apc = "analyzed" =>
        /\ Len(report.all_bigrams)
              = SumOver(RowBigramCounts, 1..Len(adf.rows))
        /\ \A k \in 1..Len(adf.rows) :
              \A j \in 1..RowBigramCount(k) :
                 report.all_bigrams[RowOffset(k) + j]
                    = RowTokens(k)[j] \o <<" ">> \o RowTokens(k)[j + 1]
        /\ \A k \in 1..(Len(adf.rows) - 1) :
              (RowTokens(k) # <<>> /\ RowTokens(k + 1) # <<>>) =>
                 LET across == RowTokens(k)[Len(RowTokens(k))] \o <<" ">>
                                  \o RowTokens(k + 1)[1]
                 IN Cardinality({i \in 1..Len(report.all_bigrams) :
                                    report.all_bigrams[i] = across})
                     = SumOver([r \in 1..Len(adf.rows) |->
                                   Cardinality({j \in 1..RowBigramCount(r) :
                                       RowTokens(r)[j] \o <<" ">>
                                          \o RowTokens(r)[j + 1] = across})],
                               1..Len(adf.rows))

\* two rows with bigrams of their own; the pair across the boundary, b b, is
\* in no row and in no bigram
C9_Witness ==
    /\ apc = "analyzed"
    /\ Len(adf.rows) = 2
    /\ adf.rows[1].clean_text = <<"a", " ", "b">>
    /\ adf.rows[2].clean_text = <<"b", " ", "a", " ", "b">>
    /\ Len(report.all_bigrams) = 3
    /\ \A i \in 1..3 : report.all_bigrams[i] # <<"b", " ", "b">>

(***************************************************************************)
(* C10: a row whose published_at does not parse never aborts the analysis; *)
(* it is left out of the daily distribution only: the daily counts add up  *)
(* to the number of rows with a timestamp that parses, while the row is    *)
(* still counted in the comment count, the tokens, the bigrams and the     *)
(* top-liked ranking; the daily distribution is not written when no row    *)
(* has a timestamp that parses.                                            *)
(***************************************************************************)
Parses(k) == adf.rows[k].published_at.kind = "iso"

C10_BadTimestampOnlyLeavesDaily ==
    /\ apc # "aborted"
    /\ apc = "analyzed" =>
         LET n == Len(adf.rows)
             daily == report.time_summary
         IN
         /\ report.n_comments = n
         /\ report.all_tokens = StreamOf(adf.rows)
         /\ Len(report.all_bigrams) = SumOver(RowBigramCounts, 1..n)
         /\ "like_count" \in adf.columns =>
               /\ Len(report.top_like) = (IF n < 15 THEN n ELSE 15)
               /\ n <= 15 => \A k \in 1..n :
                                \E i \in 1..Len(report.top_like) :
                                   report.top_like[i].row = k
         /\ "published_at" \in adf.columns =>
               /\ SumOver([i \in 1..Len(daily) |-> daily[i].comment_count],
                          1..Len(daily))
                     = Cardinality({k \in 1..n : Parses(k)})
               /\ \A i \in 1..Len(daily) : daily[i].comment_count > 0
               /\ (report.time_path = NoPath) <=> (\A k \in 1..n : ~Parses(k))
         /\ "published_at" \notin adf.columns => report.time_path = NoPath

\* a row with a bad timestamp and tokens, beside a row with a good one: one
\* daily line, two comments, the bad row among the top liked
C10_Witness ==
    /\ apc = "analyzed"
    /\ adf.columns = {"clean_text", "char_count", "word_count", "like_count",
                      "published_at"}
    /\ Len(adf.rows) = 2
    /\ ~Parses(1) /\ Parses(2)
    /\ adf.rows[1].clean_text = <<"a", " ", "b">>
    /\ report.n_comments = 2
    /\ Len(report.time_summary) = 1
    /\ report.time_summary[1].comment_count = 1
    /\ report.time_path # NoPath
    /\ \E i \in 1..Len(report.top_like) : report.top_like[i].row = 1

\* every timestamp is bad: the analysis is done and no daily file written
C10_WitnessNoDaily ==
    /\ apc = "analyzed"
    /\ "published_at" \in adf.columns
    /\ Len(adf.rows) = 2
    /\ ~Parses(1) /\ ~Parses(2)
    /\ report.time_path = NoPath
    /\ report.n_comments = 2

(***************************************************************************)
(* Specification SpecRun: preprocess_run, then analyze_run on the files it *)
(* wrote (run_pipeline.py calls them in this order on one run folder)      *)
(***************************************************************************)
RunBuckets == <<"tr", "en", "others", "unknown">>
RunTexts == PipeTexts \cup {<<"0", "7">>}
RunRows == [comment_id : CommentIds, text : RunTexts]

InitRun == InitPipeOn(RunRows)

\* lines 133-147, one turn of the loop: a bucket without a file is skipped,
\* the file of another is read and analysed; after the last turn analyze_run
\* returns, or raises when it found no file
AnalyzeBucket ==
    /\ pc = "done"
    /\ rpc \in {"waiting", "loop"}
    /\ LET b == RunBuckets[bi]
           out == IF b \in DOMAIN processed
                  THEN [x \in DOMAIN results \cup {b} |->
                           IF x = b
                           THEN analyze_one(read_csv_file(processed[b]),
                                            <<>>, b)
                           ELSE results[x]]
                  ELSE results
       IN /\ results' = out
          /\ rpc' = IF bi < Len(RunBuckets) THEN "loop"
                    ELSE IF DOMAIN out = {} THEN "raised"
                    ELSE "returned"
    /\ bi' = bi + 1
    /\ UNCHANGED otherThanRun

NextRun ==
    \/ ReadCsv
    \/ ClassifyRow
    \/ SetLang
    \/ PlanBuckets
    \/ AssignRow
    \/ SetBucket
    \/ CleanRows
    \/ SplitBuckets
    \/ AnalyzeBucket

SpecRun == InitRun /\ [][NextRun]_vars

(***************************************************************************)
(* C12: after preprocess_run and analyze_run, the token stream analysed    *)
(* for a bucket is the concatenation of the tokens of each row's           *)
(* clean_text as clean_text returned it, and its bigrams are those of each *)
(* row; a row whose clean_text is empty adds no token and no bigram, so    *)
(* the vocabulary size, the TTR and the table of top tokens are those of   *)
(* the other rows.                                                         *)
(***************************************************************************)
\* the tokens of the rows' clean_text, as process_file holds them in memory
TokensInMemory(rows) ==
    Flatten([k \in 1..Len(rows) |-> an_tokenize(rows[k].clean_text)])

BigramsInMemory(rows) ==
    Flatten([k \in 1..Len(rows) |->
                ngrams(an_tokenize(rows[k].clean_text), 2)])

C12_StreamIsTokensOfCleanText ==
    rpc = "returned" =>
        \A b \in DOMAIN outputs :
            /\ b \in DOMAIN results
            /\ LET tokens == TokensInMemory(outputs[b])
                   vocab == {tokens[i] : i \in 1..Len(tokens)}
               IN /\ results[b].all_tokens = tokens
                  /\ results[b].all_bigrams = BigramsInMemory(outputs[b])
                  /\ results[b].vocab_size = Cardinality(vocab)
                  /\ results[b].ttr = ttr_of(vocab, tokens)
                  /\ results[b].word_freq =
                        HeadN(series_value_counts(tokens), TOP_N)
====
